---- MODULE Spec2Model ----
(***************************************************************************)
(* Two view components of the Jetpack plugin client:                       *)
(*   - AIControl / ToolbarControls (extensions/blocks/ai-assistant/        *)
(*     ai-control.js): the AI Assistant prompt input and block toolbar;    *)
(*   - ResourcePromptComponent / ResourcePrompt (_inc/client/              *)
(*     recommendations/prompts/resource-prompt/index.jsx): a               *)
(*     recommendation step that offers a resource.                         *)
(* Each component is a function of its props; what it renders and the      *)
(* commands its handlers and effects issue are the observable behaviour.   *)
(***************************************************************************)
EXTENDS Integers, Sequences, FiniteSets, TLC

VARIABLES
    \* ---- AIControl props (owned by the parent block) ----
    aiType, animationDone, content, contentIsLoaded, isWaitingState,
    loadingImages, showRetry,
    \* ---- AIControl: what the last render returned ----
    view,
    \* ---- AIControl: bookkeeping of the run ----
    origType,      \* aiType of the first render
    toggles,       \* number of toggleAIType calls so far
    aiStep,        \* the last step taken on the AI Assistant view
    aiIssued,      \* the commands that step invoked, in order
    \* ---- ResourcePrompt: own props and store ----
    stepSlug,      \* ownProps.stepSlug
    stateStepSlug, \* getStep( state )
    writeAtDispatch, \* the store writes the tracked step when a step update is
                   \* dispatched (TRUE) or when it completes (FALSE)
    nextRoute,     \* getNextRoute( state )
    summaryViewed, \* isStepViewed( state, 'summary' )
    inflight,      \* writes to the persisted option not yet completed
    location,      \* window.location.href
    \* ---- ResourcePromptComponent: React state ----
    mounted,       \* the component has rendered at least once
    dirty,         \* props or store changed and the re-render has not happened yet
    props,         \* props of the last render
    prevProps,     \* props of the render before it (NoProps before the second render)
    memo,          \* the four useCallback closures
    rpStep,        \* the last step taken on the Resource Prompt View
    effectRan,     \* the step effect ran in the last render
    rpIssued       \* the commands the last step issued, in order

aiVars == << aiType, animationDone, content, contentIsLoaded, isWaitingState,
             loadingImages, showRetry, view, origType, toggles, aiStep, aiIssued >>

rpVars == << stepSlug, stateStepSlug, writeAtDispatch, nextRoute, summaryViewed, inflight,
             location, mounted, dirty, props, prevProps, memo, rpStep, effectRan, rpIssued >>

vars == << aiVars, rpVars >>

\* ------------------------------------------------------------------------
\* Bounds
\* ------------------------------------------------------------------------
MaxToggles == 3
MaxInflight == 2

\* ------------------------------------------------------------------------
\* AI Assistant: ToolbarControls and AIControl
\* ------------------------------------------------------------------------
AiTypes == { "text", "image" }

\* content is only tested for truthiness: the empty string and a non-empty one.
Contents == { "", "generated" }

\* The three entries of the "More" dropdown: the variant each requests.
DropdownControls == << "summarize", "titleSummary", "continue" >>

\* TextControls with "Done" shown as soon as the content is loaded, whether or
\* not the animation is over.
TextControls_DoneBeforeAnimation(pRetry, pLoaded, pAnimDone) ==
    (IF ~pRetry /\ pLoaded THEN { "Done" } ELSE {})
    \cup (IF ~pRetry /\ ~pLoaded THEN { "ContinueWriting" } ELSE {})
    \cup (IF ~pRetry /\ ~pLoaded THEN { "More" } ELSE {})
    \cup (IF pRetry THEN { "Retry" } ELSE {})

\* TextControls with "Continue writing" kept once the content is loaded.
TextControls_ContinueAfterLoad(pRetry, pLoaded, pAnimDone) ==
    (IF ~pRetry /\ pLoaded /\ pAnimDone THEN { "Done" } ELSE {})
    \cup (IF ~pRetry THEN { "ContinueWriting" } ELSE {})
    \cup (IF ~pRetry /\ ~pLoaded THEN { "More" } ELSE {})
    \cup (IF pRetry THEN { "Retry" } ELSE {})

\* The first ToolbarGroup ("Text controls"), rendered when aiType === 'text'.
TextControls(pRetry, pLoaded, pAnimDone) ==
    (IF ~pRetry /\ pLoaded /\ pAnimDone THEN { "Done" } ELSE {})
    \cup (IF ~pRetry /\ ~pLoaded THEN { "ContinueWriting" } ELSE {})
    \cup (IF ~pRetry /\ ~pLoaded THEN { "More" } ELSE {})
    \cup (IF pRetry THEN { "Retry" } ELSE {})

\* The second ToolbarGroup ("Image/text toggle"): one button per mode,
\* "AskImage" = 'Ask AI for an image', "AskWrite" = 'Ask AI to write'.
ToggleControls(pType) ==
    (IF pType = "text" THEN { "AskImage" } ELSE {})
    \cup (IF pType = "image" THEN { "AskWrite" } ELSE {})

\* ToolbarControls with the toggle group shown whatever showRetry is.
ToolbarControls_ToggleDuringRetry(pType, pAnimDone, pLoaded, pRetry) ==
    (IF pType = "text"
        THEN TextControls(pRetry, pLoaded, pAnimDone)
        ELSE {})
    \cup (IF ~pLoaded THEN ToggleControls(pType) ELSE {})

\* The set of controls ToolbarControls renders.
ToolbarControls(pType, pAnimDone, pLoaded, pRetry) ==
    (IF pType = "text"
        THEN TextControls(pRetry, pLoaded, pAnimDone)
        ELSE {})
    \cup (IF ~pRetry /\ ~pLoaded THEN ToggleControls(pType) ELSE {})

\* LoadingShown with the parentheses moved:
\* ! content && ( isWaitingState || loadingImages ).
LoadingShown_Regrouped(pContent, pWaiting, pImages) ==
    pContent = "" /\ (pWaiting \/ pImages)

\* ( ( ! content && isWaitingState ) || loadingImages ) && <Loading />
LoadingShown(pContent, pWaiting, pImages) ==
    (pContent = "" /\ pWaiting) \/ pImages

\* { ! isWaitingState && ( <ToolbarControls ... /> ) }
ToolbarRendered(pWaiting) == ~pWaiting

\* What AIControl returns for the given props.
AIControl(pType, pAnimDone, pContent, pLoaded, pWaiting, pImages, pRetry) ==
    [ toolbarRendered |-> ToolbarRendered(pWaiting),
      toolbar |-> IF ToolbarRendered(pWaiting)
                     THEN ToolbarControls(pType, pAnimDone,
                                          pLoaded, pRetry)
                     ELSE {},
      loading |-> LoadingShown(pContent, pWaiting, pImages),
      buttonDisabled |-> pWaiting,
      placeholder |-> IF pWaiting THEN "AI writing" ELSE "placeholder" ]

\* toggleAIType with both branches setting 'image'.
toggleAIType_AlwaysImage(pType) == IF pType = "text" THEN "image" ELSE "image"

\* toggleAIType: the argument it passes to setAiType.
toggleAIType(pType) == IF pType = "text" THEN "image" ELSE "text"

\* handleInputEnter: the commands a key press invokes.
handleInputEnter(key, shiftKey) ==
    IF key = "Enter" /\ ~shiftKey
        THEN << [ cmd |-> "preventDefault" ], [ cmd |-> "handleGetSuggestion" ] >>
        ELSE << >>

Keys == { "Enter", "a" }

AIUnmounted ==
    /\ aiType = "text" /\ animationDone = FALSE /\ content = ""
    /\ contentIsLoaded = FALSE /\ isWaitingState = FALSE
    /\ loadingImages = FALSE /\ showRetry = FALSE
    /\ view = AIControl("text", FALSE, "", FALSE, FALSE, FALSE, FALSE)
    /\ origType = "text" /\ toggles = 0 /\ aiStep = "render" /\ aiIssued = << >>

\* The first render of AIControl: any props.
InitAI ==
    /\ aiType \in AiTypes
    /\ animationDone \in BOOLEAN
    /\ content \in Contents
    /\ contentIsLoaded \in BOOLEAN
    /\ isWaitingState \in BOOLEAN
    /\ loadingImages \in BOOLEAN
    /\ showRetry \in BOOLEAN
    /\ view = AIControl(aiType, animationDone, content, contentIsLoaded,
                        isWaitingState, loadingImages, showRetry)
    /\ origType = aiType
    /\ toggles = 0
    /\ aiStep = "render"
    /\ aiIssued = << >>

\* The parent renders AIControl again with new values of the props it owns.
\* aiType is changed by setAiType only.
RenderAI ==
    /\ animationDone' \in BOOLEAN
    /\ content' \in Contents
    /\ contentIsLoaded' \in BOOLEAN
    /\ isWaitingState' \in BOOLEAN
    /\ loadingImages' \in BOOLEAN
    /\ showRetry' \in BOOLEAN
    /\ view' = AIControl(aiType, animationDone', content', contentIsLoaded',
                         isWaitingState', loadingImages', showRetry')
    /\ aiStep' = "render"
    /\ aiIssued' = << >>
    /\ UNCHANGED << aiType, origType, toggles >>
    /\ UNCHANGED rpVars

\* A user step that invokes commands and leaves the props alone.
AIUserStep(step, cmds) ==
    /\ aiStep' = step
    /\ aiIssued' = cmds
    /\ UNCHANGED << aiType, animationDone, content, contentIsLoaded, isWaitingState,
                    loadingImages, showRetry, view, origType, toggles >>
    /\ UNCHANGED rpVars

\* <Button onClick={ () => handleGetSuggestion() } disabled={ isWaitingState }>
ClickSubmit ==
    /\ ~view.buttonDisabled
    /\ AIUserStep("submit", << [ cmd |-> "handleGetSuggestion" ] >>)

\* <TextareaControl onKeyPress={ handleInputEnter } />: never disabled.
KeyPress ==
    \E key \in Keys, shiftKey \in BOOLEAN :
        AIUserStep("key", handleInputEnter(key, shiftKey))

\* <TextareaControl onChange={ value => setUserPrompt( value ) } />
ChangeInput ==
    AIUserStep("change", << [ cmd |-> "setUserPrompt" ] >>)

ClickDone ==
    /\ "Done" \in view.toolbar
    /\ AIUserStep("done", << [ cmd |-> "handleAcceptContent" ] >>)

ClickContinueWriting ==
    /\ "ContinueWriting" \in view.toolbar
    /\ AIUserStep("continue",
                  << [ cmd |-> "getSuggestionFromOpenAI", arg |-> "continue" ] >>)

ClickMore ==
    /\ "More" \in view.toolbar
    /\ \E i \in DOMAIN DropdownControls :
        AIUserStep("more", << [ cmd |-> "getSuggestionFromOpenAI",
                                arg |-> DropdownControls[i] ] >>)

ClickRetry ==
    /\ "Retry" \in view.toolbar
    /\ AIUserStep("retry", << [ cmd |-> "handleGetSuggestion" ] >>)

\* Either toggle button: onClick={ toggleAIType }. setAiType takes effect at once
\* and the parent renders again with the new aiType.
ClickToggle ==
    /\ view.toolbar \cap { "AskImage", "AskWrite" } # {}
    /\ toggles < MaxToggles
    /\ aiType' = toggleAIType(aiType)
    /\ toggles' = toggles + 1
    /\ view' = AIControl(aiType', animationDone, content, contentIsLoaded,
                         isWaitingState, loadingImages, showRetry)
    /\ aiStep' = "toggle"
    /\ aiIssued' = << [ cmd |-> "setAiType", arg |-> toggleAIType(aiType) ] >>
    /\ UNCHANGED << animationDone, content, contentIsLoaded, isWaitingState,
                    loadingImages, showRetry, origType >>
    /\ UNCHANGED rpVars

NextAI ==
    \/ RenderAI
    \/ ClickSubmit
    \/ KeyPress
    \/ ChangeInput
    \/ ClickDone
    \/ ClickContinueWriting
    \/ ClickMore
    \/ ClickRetry
    \/ ClickToggle

\* ------------------------------------------------------------------------
\* Resource Prompt View: the store it is connected to
\* ------------------------------------------------------------------------
Slugs == { "A", "B" }

\* Values of the step tracked by the store: a resource step or another step.
StoreSteps == Slugs \cup { "other" }

Routes == { "#/recommendations/next-1", "#/recommendations/next-2" }

SummaryRoute == "#/recommendations/summary"

\* isUpdatingRecommendationsStep( state ): true while a step update is in flight.
isUpdatingRecommendationsStep(q) ==
    \E i \in DOMAIN q : q[i].kind = "step"

\* mapStateToProps of connect, with ownProps.stepSlug.
MapStateToProps ==
    [ stepSlug |-> stepSlug,
      stateStepSlug |-> stateStepSlug,
      updatingStep |-> isUpdatingRecommendationsStep(inflight),
      nextRoute |-> nextRoute,
      summaryViewed |-> summaryViewed ]

\* mapDispatchToProps of connect: the write each command dispatches.
DispatchedWrites(cmds) ==
    [ i \in DOMAIN cmds |->
        [ kind |-> IF cmds[i].cmd = "updateRecommendationsStep" THEN "step" ELSE "viewed",
          step |-> cmds[i].arg ] ]

\* The tracked step once the commands are dispatched.
StepAfterDispatch(cmds) ==
    IF writeAtDispatch /\ cmds # << >> /\ cmds[1].cmd = "updateRecommendationsStep"
        THEN cmds[1].arg
        ELSE stateStepSlug

RemoveAt(q, i) == [ j \in 1..(Len(q) - 1) |-> IF j < i THEN q[j] ELSE q[j + 1] ]

\* ------------------------------------------------------------------------
\* Resource Prompt View: ResourcePromptComponent
\* ------------------------------------------------------------------------

\* StepEffect without the updatingStep test on its second branch.
StepEffect_ViewedWhileUpdating(p) ==
    IF p.stepSlug # p.stateStepSlug
        THEN << [ cmd |-> "updateRecommendationsStep", arg |-> p.stepSlug ] >>
    ELSE IF p.stepSlug = p.stateStepSlug
        THEN << [ cmd |-> "addViewedRecommendation", arg |-> p.stepSlug ] >>
    ELSE << >>

\* The body of the step effect: the commands it issues for the given props.
StepEffect(p) ==
    IF p.stepSlug # p.stateStepSlug
        THEN << [ cmd |-> "updateRecommendationsStep", arg |-> p.stepSlug ] >>
    ELSE IF p.stepSlug = p.stateStepSlug /\ ~p.updatingStep
        THEN << [ cmd |-> "addViewedRecommendation", arg |-> p.stepSlug ] >>
    ELSE << >>

\* StepEffectDeps with updatingStep left out of the array.
StepEffectDeps_NoUpdatingStep(p) ==
    << p.stepSlug, p.stateStepSlug,
       "updateRecommendationsStep", "addViewedRecommendation" >>

\* The dependency array of the step effect. The two command callbacks come
\* from mapDispatchToProps, which depends on dispatch alone: they keep their
\* identity across renders.
StepEffectDeps(p) ==
    << p.stepSlug, p.stateStepSlug, p.updatingStep,
       "updateRecommendationsStep", "addViewedRecommendation" >>

\* useEffect( f, deps ): f runs after the first render and after every render
\* in which some dependency differs from the previous render's.
StepEffectRuns(isMounted, old, new) ==
    ~isMounted \/ StepEffectDeps(old) # StepEffectDeps(new)

\* Dependency arrays of the four useCallback handlers.
StepSlugDeps(p) == << p.stepSlug >>

\* ResourceLinkDeps with nextRoute left out of the array.
ResourceLinkDeps_NoNextRoute(p) == << p.stepSlug >>

ResourceLinkDeps(p) == << p.stepSlug, p.nextRoute >>

\* useCallback( f, deps ): the closure of the render that last changed deps.
UseCallback(isMounted, old, deps, p) ==
    IF ~isMounted \/ old.deps # deps
        THEN [ deps |-> deps, stepSlug |-> p.stepSlug, nextRoute |-> p.nextRoute ]
        ELSE old

RecordEvent(name, feature) ==
    [ cmd |-> "recordEvent", arg |-> name, feature |-> feature ]

\* The handlers: what each closure does when called.
onExternalLinkClick(fn) ==
    << RecordEvent("jetpack_recommended_resource_learn_more_click", fn.stepSlug) >>

onResourceLinkClick(fn) ==
    << RecordEvent("jetpack_recommended_resource_read_click", fn.stepSlug),
       [ cmd |-> "setLocationHref", arg |-> fn.nextRoute ] >>

onResourceSkipClick(fn) ==
    << RecordEvent("jetpack_recommended_resource_skip_click", fn.stepSlug) >>

onBackToSummaryClick(fn) ==
    << RecordEvent("jetpack_recommended_resource_back_to_summary_click", fn.stepSlug) >>

\* The element's own action, which the browser takes after the handler returns.
DefaultAction(href) == [ cmd |-> "default", arg |-> href ]

NoProps ==
    [ stepSlug |-> "", stateStepSlug |-> "", updatingStep |-> FALSE,
      nextRoute |-> "", summaryViewed |-> FALSE ]

NoCallback == [ deps |-> << >>, stepSlug |-> "", nextRoute |-> "" ]

NoMemo ==
    [ external |-> NoCallback, resource |-> NoCallback,
      skip |-> NoCallback, back |-> NoCallback ]

RPUnmounted ==
    /\ stepSlug = "A" /\ stateStepSlug = "other" /\ writeAtDispatch = TRUE
    /\ nextRoute = "#/recommendations/next-1" /\ summaryViewed = FALSE
    /\ inflight = << >> /\ location = "#/recommendations/A"
    /\ mounted = FALSE /\ dirty = TRUE /\ props = NoProps /\ prevProps = NoProps
    /\ memo = NoMemo
    /\ rpStep = "none" /\ effectRan = FALSE /\ rpIssued = << >>

\* Before the first render: the route names a step, the store holds any step.
InitRP ==
    /\ stepSlug \in Slugs
    /\ stateStepSlug \in StoreSteps
    /\ writeAtDispatch \in BOOLEAN
    /\ nextRoute \in Routes
    /\ summaryViewed \in BOOLEAN
    /\ inflight = << >>
    /\ location = "#/recommendations/" \o stepSlug
    /\ mounted = FALSE
    /\ dirty = TRUE
    /\ props = NoProps
    /\ prevProps = NoProps
    /\ memo = NoMemo
    /\ rpStep = "none"
    /\ effectRan = FALSE
    /\ rpIssued = << >>

\* One render of ResourcePromptComponent followed by its effect; the commands
\* the effect issues are dispatched to the store.
Render ==
    LET p == MapStateToProps
        runs == StepEffectRuns(mounted, props, p)
        cmds == IF runs THEN StepEffect(p) ELSE << >>
    IN  /\ Len(inflight) + Len(cmds) <= MaxInflight
        /\ props' = p
        /\ prevProps' = props
        /\ mounted' = TRUE
        /\ memo' = [ external |-> UseCallback(mounted, memo.external, StepSlugDeps(p), p),
                     resource |-> UseCallback(mounted, memo.resource, ResourceLinkDeps(p), p),
                     skip |-> UseCallback(mounted, memo.skip, StepSlugDeps(p), p),
                     back |-> UseCallback(mounted, memo.back, StepSlugDeps(p), p) ]
        /\ effectRan' = runs
        /\ rpIssued' = cmds
        /\ rpStep' = "render"
        /\ inflight' = inflight \o DispatchedWrites(cmds)
        /\ stateStepSlug' = StepAfterDispatch(cmds)
        /\ dirty' = (cmds # << >>)
        /\ UNCHANGED << stepSlug, writeAtDispatch, nextRoute, summaryViewed, location >>
        /\ UNCHANGED aiVars

\* The router hands the component another step.
Navigate ==
    /\ \E s \in Slugs \ { stepSlug } : stepSlug' = s
    /\ dirty' = TRUE
    /\ UNCHANGED << stateStepSlug, writeAtDispatch, nextRoute, summaryViewed,
                    inflight, location,
                    mounted, props, prevProps, memo, rpStep, effectRan, rpIssued >>
    /\ UNCHANGED aiVars

\* A write to the persisted option completes.
CompleteWrite ==
    \E i \in DOMAIN inflight :
        /\ inflight' = RemoveAt(inflight, i)
        /\ IF inflight[i].kind = "step"
              THEN /\ stateStepSlug' = IF writeAtDispatch THEN stateStepSlug
                                                           ELSE inflight[i].step
                   /\ nextRoute' \in Routes
              ELSE UNCHANGED << stateStepSlug, nextRoute >>
        /\ dirty' = TRUE
        /\ UNCHANGED << stepSlug, writeAtDispatch, summaryViewed, location,
                        mounted, props, prevProps, memo, rpStep, effectRan,
                        rpIssued >>
        /\ UNCHANGED aiVars

\* The summary screen is reached elsewhere in the flow.
ViewSummary ==
    /\ ~summaryViewed
    /\ summaryViewed' = TRUE
    /\ dirty' = TRUE
    /\ UNCHANGED << stepSlug, stateStepSlug, writeAtDispatch, nextRoute, inflight,
                    location,
                    mounted, props, prevProps, memo, rpStep, effectRan, rpIssued >>
    /\ UNCHANGED aiVars

\* A click on a rendered element: the handler, then the element's own action.
RPClick(step, cmds, href) ==
    /\ mounted
    /\ ~dirty
    /\ rpStep' = step
    /\ rpIssued' = cmds
    /\ effectRan' = FALSE
    /\ location' = href
    /\ UNCHANGED << stepSlug, stateStepSlug, writeAtDispatch, nextRoute,
                    summaryViewed, inflight,
                    mounted, dirty, props, prevProps, memo >>
    /\ UNCHANGED aiVars

\* <ExternalLink href={ descriptionLink } onClick={ onExternalLinkClick } />
\* opens in a new window: this window stays where it is.
ClickExternalLink ==
    RPClick("external",
            Append(onExternalLinkClick(memo.external), DefaultAction("descriptionLink")),
            location)

\* <ExternalLink href={ ctaLink } onClick={ onResourceLinkClick }> opens in a
\* new window; the handler moves this window to nextRoute.
ClickResourceLink ==
    RPClick("resource",
            Append(onResourceLinkClick(memo.resource), DefaultAction("ctaLink")),
            memo.resource.nextRoute)

\* <a href={ nextRoute } onClick={ onResourceSkipClick }>
ClickResourceSkip ==
    RPClick("skip",
            Append(onResourceSkipClick(memo.skip), DefaultAction(props.nextRoute)),
            props.nextRoute)

\* { summaryViewed && ( <a onClick={ onBackToSummaryClick } href="#/recommendations/summary"> ) }
ClickBackToSummary ==
    /\ mounted
    /\ props.summaryViewed
    /\ RPClick("back",
               Append(onBackToSummaryClick(memo.back), DefaultAction(SummaryRoute)),
               SummaryRoute)

NextRP ==
    \/ Render
    \/ Navigate
    \/ CompleteWrite
    \/ ViewSummary
    \/ ClickExternalLink
    \/ ClickResourceLink
    \/ ClickResourceSkip
    \/ ClickBackToSummary

\* ------------------------------------------------------------------------
\* Specifications
\* ------------------------------------------------------------------------
\* The two components share no state: each is checked on its own, the other
\* one at rest.
InitAIView == InitAI /\ RPUnmounted

InitRPView == InitRP /\ AIUnmounted

\* The AI Assistant view.
SpecAI == InitAIView /\ [][NextAI]_vars

\* The Resource Prompt View.
SpecRP == InitRPView /\ [][NextRP]_vars

\* The Resource Prompt View against a store that writes the tracked step as
\* soon as a step update is dispatched.
InitRPWriteAtDispatch == InitRPView /\ writeAtDispatch

SpecRPWriteAtDispatch == InitRPWriteAtDispatch /\ [][NextRP]_vars

\* ------------------------------------------------------------------------
\* Properties of the AI Assistant view (SpecAI)
\* ------------------------------------------------------------------------
ToggleButtons == { "AskImage", "AskWrite" }

SuggestionRequests == { "handleGetSuggestion", "getSuggestionFromOpenAI" }

\* C2, as stated: whenever the toolbar is rendered and showRetry is true, the
\* visible controls are exactly { Retry }, in text mode and in image mode.
C2_RetryAloneInEveryMode ==
    (view.toolbarRendered /\ showRetry) => view.toolbar = { "Retry" }

\* C2, amended: whenever the toolbar is rendered and showRetry is true, the
\* visible controls are exactly { Retry } in text mode and none at all in
\* image mode, for every contentIsLoaded and animationDone.
C2_RetryAloneInTextMode ==
    (view.toolbarRendered /\ showRetry) =>
        view.toolbar = (IF aiType = "text" THEN { "Retry" } ELSE {})

C2_Witness ==
    /\ view.toolbarRendered /\ showRetry /\ aiType = "text"
    /\ contentIsLoaded /\ animationDone
    /\ view.toolbar = { "Retry" }

\* C3, as stated: whenever isWaitingState is true, no toolbar control is
\* rendered and the loading indicator is rendered, for every content and
\* loadingImages.
C3_WaitingShowsLoading ==
    isWaitingState =>
        /\ ~view.toolbarRendered
        /\ view.toolbar = {}
        /\ view.loading

\* C3, amended: whenever isWaitingState is true, no toolbar control is
\* rendered, and the loading indicator is rendered exactly when content is
\* empty or loadingImages is true.
C3_WaitingHidesToolbar ==
    isWaitingState =>
        /\ ~view.toolbarRendered
        /\ view.toolbar = {}
        /\ (view.loading <=> (content = "" \/ loadingImages))

C3_Witness ==
    /\ isWaitingState /\ content # "" /\ loadingImages
    /\ view.toolbar = {} /\ view.loading

\* C4: with the toolbar rendered and showRetry false, Done is visible iff
\* text mode, content loaded and animation done; Continue-writing and the
\* dropdown iff text mode and content not loaded; the toggle iff content not
\* loaded, offering the mode opposite to the current one; nothing else is
\* visible; the dropdown entries request summarize, titleSummary, continue.
C4_VisibleControls ==
    /\ (view.toolbarRendered /\ ~showRetry) =>
        /\ "Done" \in view.toolbar
              <=> (aiType = "text" /\ contentIsLoaded /\ animationDone)
        /\ "ContinueWriting" \in view.toolbar <=> (aiType = "text" /\ ~contentIsLoaded)
        /\ "More" \in view.toolbar <=> (aiType = "text" /\ ~contentIsLoaded)
        /\ "AskImage" \in view.toolbar <=> (aiType = "text" /\ ~contentIsLoaded)
        /\ "AskWrite" \in view.toolbar <=> (aiType = "image" /\ ~contentIsLoaded)
        /\ view.toolbar \subseteq
              { "Done", "ContinueWriting", "More", "AskImage", "AskWrite" }
    /\ aiStep = "more" =>
        /\ Len(aiIssued) = 1
        /\ aiIssued[1].cmd = "getSuggestionFromOpenAI"
        /\ aiIssued[1].arg \in { "summarize", "titleSummary", "continue" }
    /\ { DropdownControls[i] : i \in DOMAIN DropdownControls }
          = { "summarize", "titleSummary", "continue" }

C4_Witness ==
    /\ view.toolbarRendered /\ ~showRetry /\ aiType = "text"
    /\ contentIsLoaded /\ animationDone
    /\ view.toolbar = { "Done" }

\* C8: mutually exclusive controls are never rendered together: with
\* showRetry true none of Done, Continue-writing, the dropdown or the toggle
\* is rendered, and Done is never rendered with Continue-writing or the
\* dropdown.
C8_NoExclusiveControlsTogether ==
    /\ showRetry =>
          view.toolbar \cap ({ "Done", "ContinueWriting", "More" } \cup ToggleButtons) = {}
    /\ ~("Done" \in view.toolbar
           /\ view.toolbar \cap { "ContinueWriting", "More" } # {})

C8_Witness ==
    /\ view.toolbarRendered /\ showRetry /\ aiType = "text" /\ ~contentIsLoaded
    /\ "Retry" \in view.toolbar

\* C9: after an even number of toggles the mode is the original one, after an
\* odd number the other one; a toggle issues a single setAiType, with the
\* opposite mode, and nothing else.
C9_ToggleIsInvolution ==
    /\ toggles % 2 = 0 => aiType = origType
    /\ toggles % 2 = 1 => (aiType \in AiTypes /\ aiType # origType)
    /\ aiStep = "toggle" =>
          aiIssued = << [ cmd |-> "setAiType", arg |-> aiType ] >>

C9_Witness ==
    /\ toggles = 2 /\ aiStep = "toggle" /\ aiType = origType

\* C10: while isWaitingState is true, no step on the view invokes
\* handleGetSuggestion or getSuggestionFromOpenAI.
C10_NoRequestWhileWaiting ==
    isWaitingState =>
        \A i \in DOMAIN aiIssued : aiIssued[i].cmd \notin SuggestionRequests

\* ------------------------------------------------------------------------
\* Properties of the Resource Prompt View (SpecRP)
\* ------------------------------------------------------------------------
UpdateStepCmd(s) == [ cmd |-> "updateRecommendationsStep", arg |-> s ]

ViewedCmd(s) == [ cmd |-> "addViewedRecommendation", arg |-> s ]

ClickSteps == { "external", "resource", "skip", "back" }

EventNameOf(step) ==
    CASE step = "external" -> "jetpack_recommended_resource_learn_more_click"
      [] step = "resource" -> "jetpack_recommended_resource_read_click"
      [] step = "skip" -> "jetpack_recommended_resource_skip_click"
      [] step = "back" -> "jetpack_recommended_resource_back_to_summary_click"

\* The three values the claim names among the effect's dependencies.
ClaimedDeps(p) == << p.stepSlug, p.stateStepSlug, p.updatingStep >>

\* C1: a run of the step effect with (stepSlug, stateStepSlug, updatingStep)
\* issues exactly updateRecommendationsStep(stepSlug) when the slugs differ,
\* exactly addViewedRecommendation(stepSlug) when they are equal and
\* updatingStep is false, and nothing when they are equal and it is true.
C1_OneOutcomePerEffectRun ==
    (rpStep = "render" /\ effectRan) =>
        /\ Len(rpIssued) <= 1
        /\ props.stepSlug # props.stateStepSlug
              => rpIssued = << UpdateStepCmd(props.stepSlug) >>
        /\ (props.stepSlug = props.stateStepSlug /\ ~props.updatingStep)
              => rpIssued = << ViewedCmd(props.stepSlug) >>
        /\ (props.stepSlug = props.stateStepSlug /\ props.updatingStep)
              => rpIssued = << >>

C1_Witness ==
    /\ rpStep = "render" /\ effectRan
    /\ props.stepSlug = props.stateStepSlug /\ props.updatingStep
    /\ rpIssued = << >>

C6_UpdateOnEveryRender ==
    (rpStep = "render" /\ props.stepSlug # props.stateStepSlug) =>
        rpIssued = << UpdateStepCmd(props.stepSlug) >>

\* C6, amended: a render in which stepSlug differs from stateStepSlug issues
\* updateRecommendationsStep(stepSlug) when it is the first render or one of
\* stepSlug, stateStepSlug, updatingStep changed since the previous render,
\* and issues nothing when none of them changed.
C6_UpdateWhenDepsChanged ==
    (rpStep = "render" /\ props.stepSlug # props.stateStepSlug) =>
        IF prevProps = NoProps \/ ClaimedDeps(prevProps) # ClaimedDeps(props)
            THEN rpIssued = << UpdateStepCmd(props.stepSlug) >>
            ELSE rpIssued = << >>

C6_Witness ==
    /\ rpStep = "render" /\ props.stepSlug # props.stateStepSlug
    /\ prevProps # NoProps /\ ClaimedDeps(prevProps) = ClaimedDeps(props)
    /\ rpIssued = << >>

\* C7: each of the four click handlers records exactly one analytics event,
\* with its own name and feature = the stepSlug of the render that was
\* clicked, before anything else the click does; the call-to-action sets
\* window.location.href to that render's nextRoute after recording it.
C7_OneEventPerClick ==
    rpStep \in ClickSteps =>
        /\ { i \in DOMAIN rpIssued : rpIssued[i].cmd = "recordEvent" } = { 1 }
        /\ rpIssued[1].arg = EventNameOf(rpStep)
        /\ rpIssued[1].feature = props.stepSlug
        /\ rpIssued[Len(rpIssued)].cmd = "default"
        /\ rpStep = "resource" =>
              /\ Len(rpIssued) = 3
              /\ rpIssued[2] = [ cmd |-> "setLocationHref", arg |-> props.nextRoute ]
              /\ location = props.nextRoute
        /\ rpStep # "resource" => Len(rpIssued) = 2

C7_Witness ==
    /\ rpStep = "resource"
    /\ prevProps # NoProps /\ prevProps.nextRoute # props.nextRoute
    /\ prevProps.stepSlug = props.stepSlug
    /\ rpIssued[2] = [ cmd |-> "setLocationHref", arg |-> props.nextRoute ]

====
